---- MODULE Spec2Model ----
(***************************************************************************)
(* State-machine model of one game room of the drawing-and-guessing party  *)
(* game: GameRoom (join / leave / message handlers), RoundController       *)
(* (phase machine and timers), TeamController (queues and roles) and       *)
(* ScoreController (points and win checks).                                *)
(*                                                                         *)
(* Strings are sequences of one-character strings, so that trim, lower-    *)
(* casing, split and join are computed and not assumed.  The players map   *)
(* and the playerScores map are sequences: both are insertion-ordered maps *)
(* in the program and the order is read (host promotion, tie lists).       *)
(* Time is abstracted: an armed timer may fire at any later step.          *)
(***************************************************************************)
EXTENDS Integers, Sequences, FiniteSets, TLC

\* ------------------------------------------------------------------ bounds
MaxSessions == 3
FewSessions == 2
MaxRound == 2
MaxStrokes == 1
MaxGuesses == 1
MaxChat == 1
MaxHintReveals == 1
MaxStartPending == 1
MaxGrace == 1
MaxRoundEndPending == 1
MaxRoundTeams == 3
MaxScore == 2
MaxLobbyStarts == 2

\* ------------------------------------------------------- program constants
NumAvatarColors == 12
MaxClients == 16
DefaultTargetScore == 10
DefaultTotalRounds == 10
DefaultDrawTime == 75
NumWordChoices == 3
FFA_TEAM_INDEX == 0
NoTeam == -1
NoSession == 0
MinDrawTime == 30
MaxDrawTime == 120

\* ------------------------------------------------------------- sequences
Range(s) == {s[i] : i \in DOMAIN s}

Min2(a, b) == IF a < b THEN a ELSE b

\* Array.prototype.indexOf, 1-based; 0 when absent
IndexOf(s, x) ==
    IF \E i \in DOMAIN s : s[i] = x
    THEN CHOOSE i \in DOMAIN s : s[i] = x /\ \A j \in 1 .. (i - 1) : s[j] # x
    ELSE 0

\* splice(i, 1)
RemoveAt(s, i) == SubSeq(s, 1, i - 1) \o SubSeq(s, i + 1, Len(s))

Count(s, x) == Cardinality({i \in DOMAIN s : s[i] = x})

\* ---------------------------------------------------------------- strings
Str_owl == <<"o", "w", "l">>
Str_fox == <<"f", "o", "x">>
Str_bat == <<"b", "a", "t">>
Str_OWL_padded == <<" ", "O", "W", "L">>
Str_blank == <<" ">>
Str_Correct == <<"#", "C", "o", "r", "r", "e", "c", "t", "!">>

\* String.prototype.toLowerCase on the characters the model uses
LowerChar(c) ==
    CASE c = "A" -> "a"
      [] c = "B" -> "b"
      [] c = "C" -> "c"
      [] c = "D" -> "d"
      [] c = "L" -> "l"
      [] c = "N" -> "n"
      [] c = "O" -> "o"
      [] c = "W" -> "w"
      [] c = "X" -> "x"
      [] OTHER -> c

ToLowerCase(s) == [i \in DOMAIN s |-> LowerChar(s[i])]

RECURSIVE TrimStart(_)
TrimStart(s) ==
    IF s # <<>> /\ Head(s) = " " THEN TrimStart(Tail(s)) ELSE s

RECURSIVE TrimEnd(_)
TrimEnd(s) ==
    IF s # <<>> /\ s[Len(s)] = " " THEN TrimEnd(SubSeq(s, 1, Len(s) - 1)) ELSE s

\* String.prototype.trim
Trim(s) == TrimEnd(TrimStart(s))

\* Array.prototype.join(' ') on a sequence of strings
RECURSIVE JoinSpace(_)
JoinSpace(parts) ==
    IF parts = <<>> THEN <<>>
    ELSE IF Len(parts) = 1 THEN parts[1]
    ELSE parts[1] \o <<" ">> \o JoinSpace(Tail(parts))

\* String.prototype.split(' '): every single space separates two tokens
RECURSIVE SplitSpaceFrom(_, _)
SplitSpaceFrom(s, cur) ==
    IF s = <<>> THEN <<cur>>
    ELSE IF Head(s) = " " THEN <<cur>> \o SplitSpaceFrom(Tail(s), <<>>)
    ELSE SplitSpaceFrom(Tail(s), Append(cur, Head(s)))

SplitSpace(s) == SplitSpaceFrom(s, <<>>)

\* Is the string `w` a contiguous part of the string `s`
Contains(s, w) ==
    /\ w # <<>>
    /\ \E i \in 1 .. (Len(s) - Len(w) + 1) : SubSeq(s, i, i + Len(w) - 1) = w

\* ------------------------------------------------------------- word bank
WordBank == {Str_owl, Str_fox, Str_bat}

\* pickRandomWords(category, 3): three distinct words of the pool, any order
PickRandomWords ==
    {<<Str_owl, Str_fox, Str_bat>>}

\* generateHint: every letter "_", every space a double space, joined by " "
GenerateHint(word) ==
    JoinSpace([i \in DOMAIN word |-> IF word[i] = " " THEN <<" ", " ">> ELSE <<"_">>])

\* revealLetter, first loop: positions of the word whose hint token is "_";
\* hintIdx advances by one per character of the word
HintTokenAt(hintChars, k) ==
    IF k \in DOMAIN hintChars THEN hintChars[k] ELSE <<"?">>

HiddenPositions(word, hintChars) ==
    {i \in DOMAIN word : word[i] # " " /\ HintTokenAt(hintChars, i) = <<"_">>}

\* revealLetter, second loop, for the position the random draw picked
RevealAt(word, currentHint, revealIdx) ==
    LET hintChars == SplitSpace(currentHint)
    IN  JoinSpace([hintChars EXCEPT ![revealIdx] = <<word[revealIdx]>>])

\* revealLetter: the set of hints one call may return
RevealLetter(word, currentHint) ==
    LET hidden == HiddenPositions(word, SplitSpace(currentHint))
    IN  IF hidden = {} THEN {currentHint}
        ELSE {RevealAt(word, currentHint, i) : i \in hidden}

\* ------------------------------------------------------------------ state
VARIABLES
    players,           \* state.players: insertion-ordered map, as a sequence
    clients,           \* this.clients: the connected sessionIds
    nextSession,       \* the next sessionId the transport hands out
    colorIndex,        \* GameRoom.colorIndex
    grace,             \* sessionIds with a pending allowReconnection
    detachedHost,      \* of those, replaced by a rejoin while isHost was true
    disposed,          \* the room has been disconnected / disposed
    phase, teams, settings, currentRound, activeTeamIndex, currentDrawer,
    wordHint, timeRemaining, guesses, chatMessages, winningTeamIndex,
    playerScores, winnerSessionIds, isSuddenDeath,
    timer,             \* RoundController.timer: what the handle refers to
    hintTimer,         \* RoundController.hintTimer is set
    armed,             \* live timers by kind (autopick, tick, hint)
    currentWord, wordChoicesCache,
    strokeHistory,
    startPending,      \* pending 500 ms game-start timeouts
    roundEndPending,   \* pending 5 s round-end continuations, oldest first
    sent               \* messages sent while handling the last event

vars == <<players, clients, nextSession, colorIndex, grace, detachedHost,
          disposed, phase, teams, settings, currentRound, activeTeamIndex,
          currentDrawer, wordHint, timeRemaining, guesses, chatMessages,
          winningTeamIndex, playerScores, winnerSessionIds, isSuddenDeath,
          timer, hintTimer, armed, currentWord, wordChoicesCache,
          strokeHistory, startPending, roundEndPending, sent>>

\* The whole state as one record, so that a handler is a function of it.
Cur ==
    [players |-> players, clients |-> clients, nextSession |-> nextSession,
     colorIndex |-> colorIndex, grace |-> grace, detachedHost |-> detachedHost,
     disposed |-> disposed, phase |-> phase, teams |-> teams,
     settings |-> settings, currentRound |-> currentRound,
     activeTeamIndex |-> activeTeamIndex, currentDrawer |-> currentDrawer,
     wordHint |-> wordHint, timeRemaining |-> timeRemaining,
     guesses |-> guesses, chatMessages |-> chatMessages,
     winningTeamIndex |-> winningTeamIndex, playerScores |-> playerScores,
     winnerSessionIds |-> winnerSessionIds, isSuddenDeath |-> isSuddenDeath,
     timer |-> timer, hintTimer |-> hintTimer, armed |-> armed,
     currentWord |-> currentWord, wordChoicesCache |-> wordChoicesCache,
     strokeHistory |-> strokeHistory, startPending |-> startPending,
     roundEndPending |-> roundEndPending, sent |-> {}]

Commit(next) == \E S \in {next} :
    /\ players' = S.players
    /\ clients' = S.clients
    /\ nextSession' = S.nextSession
    /\ colorIndex' = S.colorIndex
    /\ grace' = S.grace
    /\ detachedHost' = S.detachedHost
    /\ disposed' = S.disposed
    /\ phase' = S.phase
    /\ teams' = S.teams
    /\ settings' = S.settings
    /\ currentRound' = S.currentRound
    /\ activeTeamIndex' = S.activeTeamIndex
    /\ currentDrawer' = S.currentDrawer
    /\ wordHint' = S.wordHint
    /\ timeRemaining' = S.timeRemaining
    /\ guesses' = S.guesses
    /\ chatMessages' = S.chatMessages
    /\ winningTeamIndex' = S.winningTeamIndex
    /\ playerScores' = S.playerScores
    /\ winnerSessionIds' = S.winnerSessionIds
    /\ isSuddenDeath' = S.isSuddenDeath
    /\ timer' = S.timer
    /\ hintTimer' = S.hintTimer
    /\ armed' = S.armed
    /\ currentWord' = S.currentWord
    /\ wordChoicesCache' = S.wordChoicesCache
    /\ strokeHistory' = S.strokeHistory
    /\ startPending' = S.startPending
    /\ roundEndPending' = S.roundEndPending
    /\ sent' = S.sent

\* --------------------------------------------------------------- messages
\* to: a sessionId (directed), 0 (broadcast to all), -s (all except s)
ToAll == 0

Msg(type, to) ==
    [type |-> type, to |-> to, word |-> <<>>, words |-> <<>>, strokes |-> <<>>]

Send(S, m) == [S EXCEPT !.sent = @ \cup {m}]

\* this.clients.find(c => c.sessionId === id)?.send(...)
SendIfClient(S, id, m) == IF id \in S.clients THEN Send(S, m) ELSE S

\* ---------------------------------------------------------------- players
PIdx(ps, sid) ==
    IF \E i \in DOMAIN ps : ps[i].sessionId = sid
    THEN CHOOSE i \in DOMAIN ps : ps[i].sessionId = sid
    ELSE 0

HasPlayer(ps, sid) == PIdx(ps, sid) # 0

PlayerOf(ps, sid) == ps[PIdx(ps, sid)]

\* MapSchema.delete
DeletePlayer(ps, sid) ==
    IF HasPlayer(ps, sid) THEN RemoveAt(ps, PIdx(ps, sid)) ELSE ps

\* a team exists at a 0-based index
HasTeam(ts, t) == t >= 0 /\ t < Len(ts)

TeamAt(ts, t) == ts[t + 1]

\* --------------------------------------------------------- TeamController
NewTeam(name) == [name |-> name, score |-> 0, drawerQueue |-> <<>>]

TeamPresetName(i) == IF i = 1 THEN "Team Blaze" ELSE IF i = 2 THEN "Team Wave" ELSE "Team Volt"

\* initTeams(count)
InitTeams(S, count) ==
    [S EXCEPT !.teams = [i \in 1 .. count |-> NewTeam(TeamPresetName(i))]]

\* removeFromTeam(player)
RemoveFromTeam(S, sid) ==
    LET i == PIdx(S.players, sid)
        p == S.players[i]
    IN  IF p.teamIndex < 0 THEN S
        ELSE IF ~HasTeam(S.teams, p.teamIndex) THEN S
        ELSE LET q == TeamAt(S.teams, p.teamIndex).drawerQueue
                 idx == IndexOf(q, sid)
                 q2 == IF idx # 0 THEN RemoveAt(q, idx) ELSE q
             IN  [S EXCEPT !.teams[p.teamIndex + 1].drawerQueue = q2,
                           !.players[i].teamIndex = NoTeam]

\* joinTeam(player, teamIndex)
JoinTeam(S, sid, teamIndex) ==
    IF teamIndex < 0 \/ teamIndex >= Len(S.teams) THEN S
    ELSE LET S1 == IF PlayerOf(S.players, sid).teamIndex >= 0
                   THEN RemoveFromTeam(S, sid) ELSE S
         IN  [S1 EXCEPT !.players[PIdx(S.players, sid)].teamIndex = teamIndex,
                        !.teams[teamIndex + 1].drawerQueue = Append(@, sid)]

\* setSpectator(player)
SetSpectator(S, sid) ==
    LET S1 == IF PlayerOf(S.players, sid).teamIndex >= 0
              THEN RemoveFromTeam(S, sid) ELSE S
    IN  [S1 EXCEPT !.players[PIdx(S.players, sid)].teamIndex = NoTeam,
                   !.players[PIdx(S.players, sid)].role = "spectator"]

\* getNextDrawer(teamIndex): the id returned (NoSession for null) and the
\* state after the front of the queue has moved to its tail
GetNextDrawer(S, teamIndex) ==
    IF ~HasTeam(S.teams, teamIndex) \/ TeamAt(S.teams, teamIndex).drawerQueue = <<>>
    THEN [id |-> NoSession, S |-> S]
    ELSE LET q == TeamAt(S.teams, teamIndex).drawerQueue
         IN  [id |-> Head(q),
              S |-> [S EXCEPT !.teams[teamIndex + 1].drawerQueue = Append(Tail(q), Head(q))]]

\* assignRoles(drawerSessionId, activeTeamIndex)
AssignRoles(S, drawerSessionId, active) ==
    [S EXCEPT !.players = [i \in DOMAIN S.players |->
        [S.players[i] EXCEPT !.role =
            IF S.players[i].sessionId = drawerSessionId THEN "drawer"
            ELSE IF S.players[i].teamIndex = active THEN "guesser"
            ELSE IF S.players[i].teamIndex >= 0 THEN "opponent"
            ELSE "spectator"]]]

\* a start condition that is always met
CanStartGameAlways(S) == TRUE

\* canStartGame().ok
CanStartGame(S) ==
    IF S.settings.gameMode = "ffa"
    THEN Cardinality({i \in DOMAIN S.players : S.players[i].isConnected}) >= 2
    ELSE Cardinality({i \in DOMAIN S.teams : Len(S.teams[i].drawerQueue) > 0}) >= 2

\* the ids of the connected players, in map order (players.forEach)
RECURSIVE ConnectedIds(_)
ConnectedIds(ps) ==
    IF ps = <<>> THEN <<>>
    ELSE IF Head(ps).isConnected THEN <<Head(ps).sessionId>> \o ConnectedIds(Tail(ps))
    ELSE ConnectedIds(Tail(ps))

\* initFFA()
InitFFA(S) ==
    [S EXCEPT !.teams = <<[NewTeam("FFA") EXCEPT !.drawerQueue = ConnectedIds(S.players)]>>,
              !.players = [i \in DOMAIN S.players |->
                  IF S.players[i].isConnected
                  THEN [S.players[i] EXCEPT !.teamIndex = FFA_TEAM_INDEX]
                  ELSE S.players[i]]]

\* assignFFARoles(drawerSessionId)
AssignFFARoles(S, drawerSessionId) ==
    [S EXCEPT !.players = [i \in DOMAIN S.players |->
        [S.players[i] EXCEPT !.role =
            IF S.players[i].sessionId = drawerSessionId THEN "drawer"
            ELSE IF S.players[i].teamIndex = FFA_TEAM_INDEX THEN "guesser"
            ELSE "spectator"]]]

\* getNextFFADrawer()
GetNextFFADrawer(S) == GetNextDrawer(S, FFA_TEAM_INDEX)

\* a sudden-death drawer taken from the tied players
GetSuddenDeathDrawerFirstTied(S, tiedIds) ==
    IF tiedIds # <<>> THEN tiedIds[1] ELSE NoSession

\* the for loop of getSuddenDeathDrawer over pool.drawerQueue
RECURSIVE FirstUntied(_, _, _)
FirstUntied(S, q, tiedIds) ==
    IF q = <<>> THEN NoSession
    ELSE IF /\ Head(q) \notin Range(tiedIds)
            /\ HasPlayer(S.players, Head(q))
            /\ PlayerOf(S.players, Head(q)).isConnected
    THEN Head(q)
    ELSE FirstUntied(S, Tail(q), tiedIds)

\* getSuddenDeathDrawer(tiedIds): NoSession for null
GetSuddenDeathDrawer(S, tiedIds) ==
    IF ~HasTeam(S.teams, FFA_TEAM_INDEX) THEN NoSession
    ELSE LET id == FirstUntied(S, TeamAt(S.teams, FFA_TEAM_INDEX).drawerQueue, tiedIds)
         IN  IF id # NoSession THEN id
             ELSE IF tiedIds # <<>> THEN tiedIds[1] ELSE NoSession

\* handleDisconnect(player) / handleReconnect(player): on a player of the map
SetConnected(S, sid, c) ==
    IF HasPlayer(S.players, sid)
    THEN [S EXCEPT !.players[PIdx(S.players, sid)].isConnected = c]
    ELSE S

HandleDisconnect(S, sid) == SetConnected(S, sid, FALSE)

HandleReconnect(S, sid) == SetConnected(S, sid, TRUE)

\* -------------------------------------------------------- ScoreController
\* awardPoint(teamIndex)
AwardPoint(S, teamIndex) ==
    IF HasTeam(S.teams, teamIndex)
    THEN [S EXCEPT !.teams[teamIndex + 1].score = @ + 1]
    ELSE S

\* a win check that never finds a winner
CheckWinConditionNever(S) == -1

\* the points loop of checkWinCondition: the first i with score >= target
RECURSIVE FirstReaching(_, _, _)
FirstReaching(ts, i, targetScore) ==
    IF i > Len(ts) THEN -1
    ELSE IF ts[i].score >= targetScore THEN i - 1
    ELSE FirstReaching(ts, i + 1, targetScore)

\* the rounds loop of checkWinCondition: winnerIdx moves on score > maxScore
RECURSIVE ScanHighest(_, _, _, _)
ScanHighest(ts, i, maxScore, winnerIdx) ==
    IF i > Len(ts) THEN winnerIdx
    ELSE IF ts[i].score > maxScore
    THEN ScanHighest(ts, i + 1, ts[i].score, i - 1)
    ELSE ScanHighest(ts, i + 1, maxScore, winnerIdx)

\* checkWinCondition(): a 0-based team index, or -1
CheckWinCondition(S) ==
    IF S.settings.winMode = "points"
    THEN FirstReaching(S.teams, 1, S.settings.targetScore)
    ELSE IF S.settings.winMode = "rounds" /\ S.currentRound >= S.settings.totalRounds
    THEN ScanHighest(S.teams, 1, -1, -1)
    ELSE -1

\* MapSchema get / set on the insertion-ordered playerScores
ScoreIdx(ms, sid) ==
    IF \E i \in DOMAIN ms : ms[i].id = sid
    THEN CHOOSE i \in DOMAIN ms : ms[i].id = sid
    ELSE 0

ScoreOf(ms, sid) == IF ScoreIdx(ms, sid) = 0 THEN 0 ELSE ms[ScoreIdx(ms, sid)].score

\* a player point that counts double
AwardPlayerPointTwice(S, sid) ==
    IF ScoreIdx(S.playerScores, sid) = 0
    THEN [S EXCEPT !.playerScores = Append(@, [id |-> sid, score |-> 2])]
    ELSE [S EXCEPT !.playerScores[ScoreIdx(S.playerScores, sid)].score = @ + 2]

\* awardPlayerPoint(sessionId)
AwardPlayerPoint(S, sid) ==
    IF ScoreIdx(S.playerScores, sid) = 0
    THEN [S EXCEPT !.playerScores = Append(@, [id |-> sid, score |-> 1])]
    ELSE [S EXCEPT !.playerScores[ScoreIdx(S.playerScores, sid)].score = @ + 1]

\* scores.forEach(score => { if (score > maxScore) maxScore = score })
RECURSIVE MaxScoreFrom(_, _)
MaxScoreFrom(ms, maxScore) ==
    IF ms = <<>> THEN maxScore
    ELSE MaxScoreFrom(Tail(ms),
                      IF Head(ms).score > maxScore THEN Head(ms).score ELSE maxScore)

MaxPlayerScore(ms) == MaxScoreFrom(ms, 0)

RECURSIVE IdsWithScore(_, _)
IdsWithScore(ms, v) ==
    IF ms = <<>> THEN <<>>
    ELSE IF Head(ms).score = v THEN <<Head(ms).id>> \o IdsWithScore(Tail(ms), v)
    ELSE IdsWithScore(Tail(ms), v)

\* checkFFAWinCondition(): the winners in map order
CheckFFAWinCondition(S) ==
    LET maxScore == MaxPlayerScore(S.playerScores)
    IN  IF S.settings.winMode = "points" /\ maxScore < S.settings.targetScore THEN <<>>
        ELSE IF S.settings.winMode # "points" /\ S.currentRound < S.settings.totalRounds THEN <<>>
        ELSE IF maxScore = 0 THEN <<>>
        ELSE IdsWithScore(S.playerScores, maxScore)

\* resetScores()
ResetScores(S) ==
    [S EXCEPT !.teams = [i \in DOMAIN S.teams |-> [S.teams[i] EXCEPT !.score = 0]]]

\* resetPlayerScores()
ResetPlayerScores(S) == [S EXCEPT !.playerScores = <<>>]

\* -------------------------------------------------------- RoundController
Dec(n) == IF n > 0 THEN n - 1 ELSE 0

\* setTimeout / setInterval stored in this.timer or this.hintTimer
ArmTimer(S, kind) ==
    [S EXCEPT !.timer = kind, !.armed[kind] = Min2(@ + 1, 2)]

ArmHintTimer(S) ==
    [S EXCEPT !.hintTimer = TRUE, !.armed.hint = Min2(@ + 1, 2)]

\* clearTimers(): cancels what the two handles refer to
ClearTimers(S) ==
    LET S1 == IF S.timer # "none"
              THEN [S EXCEPT !.armed[S.timer] = Dec(@), !.timer = "none"]
              ELSE S
    IN  IF S1.hintTimer
        THEN [S1 EXCEPT !.armed.hint = Dec(@), !.hintTimer = FALSE]
        ELSE S1

\* GameRoom.clearCanvas()
RoomClearCanvas(S) ==
    Send([S EXCEPT !.strokeHistory = <<>>], Msg("clearCanvas", ToAll))

\* a round start that keeps the active team whatever its queue holds
SkipEmptyTeamsNever(ts, active, attempts) == active

\* the while loop of startNextRound: skip teams with an empty queue
RECURSIVE SkipEmptyTeams(_, _, _)
SkipEmptyTeams(ts, active, attempts) ==
    IF attempts >= Len(ts) THEN active
    ELSE IF HasTeam(ts, active) /\ Len(TeamAt(ts, active).drawerQueue) > 0 THEN active
    ELSE SkipEmptyTeams(ts, (active + 1) % Len(ts), attempts + 1)

\* the tail of startNextRound and of startSuddenDeath: offer the words to
\* the drawer, enter word-select, arm the auto-pick timeout
OfferWords(S, drawerId, words) ==
    LET S1 == [S EXCEPT !.wordChoicesCache = words]
        S2 == SendIfClient(S1, drawerId,
                           [Msg("wordChoices", drawerId) EXCEPT !.words = words])
    IN  ArmTimer([S2 EXCEPT !.phase = "word-select"], "autopick")

\* startNextRound(); words is what pickRandomWords returns
StartNextRound(S, words) ==
    LET S1 == RoomClearCanvas(ClearTimers([S EXCEPT !.currentRound = @ + 1]))
        S2 == [S1 EXCEPT !.guesses = <<>>, !.wordHint = <<>>, !.currentWord = <<>>]
    IN  IF S2.settings.gameMode = "ffa"
        THEN LET r == GetNextFFADrawer(S2)
             IN  IF r.id = NoSession THEN S2
                 ELSE OfferWords(AssignFFARoles([r.S EXCEPT !.currentDrawer = r.id], r.id),
                                 r.id, words)
        ELSE LET S3 == [S2 EXCEPT !.activeTeamIndex =
                                      SkipEmptyTeams(S2.teams, S2.activeTeamIndex, 0)]
                 r == GetNextDrawer(S3, S3.activeTeamIndex)
             IN  IF r.id = NoSession THEN S3
                 ELSE OfferWords(AssignRoles([r.S EXCEPT !.currentDrawer = r.id],
                                             r.id, S3.activeTeamIndex),
                                 r.id, words)

\* startGame()
StartGame(S, words) ==
    LET S1 == [S EXCEPT !.currentRound = 0, !.activeTeamIndex = 0,
                        !.winningTeamIndex = -1, !.isSuddenDeath = FALSE,
                        !.winnerSessionIds = <<>>]
        S2 == IF S1.settings.gameMode = "ffa"
              THEN InitFFA(ResetPlayerScores(S1))
              ELSE ResetScores(S1)
    IN  StartNextRound(S2, words)

\* selectWord(index), index 0-based
SelectWord(S, index) ==
    IF index < 0 \/ index >= Len(S.wordChoicesCache) THEN S
    ELSE LET S1 == ClearTimers(S)
             w == S1.wordChoicesCache[index + 1]
             S2 == [S1 EXCEPT !.currentWord = w,
                              !.wordHint = GenerateHint(w),
                              !.timeRemaining = S1.settings.drawTime,
                              !.phase = "drawing"]
             S3 == SendIfClient(S2, S2.currentDrawer,
                                [Msg("secretWord", S2.currentDrawer) EXCEPT !.word = w])
         IN  ArmHintTimer(ArmTimer(S3, "tick"))

\* a 5 s continuation that endRound schedules; `after` counts the 500 ms
\* game-start delays that were pending when it was scheduled and so fire
\* before it
Continuation(kind, winner, winners) ==
    [kind |-> kind, winner |-> winner, winners |-> winners, after |-> 0]

Schedule(S, c) ==
    [S EXCEPT !.roundEndPending = Append(@, [c EXCEPT !.after = S.startPending])]

\* endRound(wasCorrect)
EndRound(S, wasCorrect) ==
    LET S1 == [ClearTimers(S) EXCEPT !.phase = "round-end"]
        isFFA == S1.settings.gameMode = "ffa"
        S2 == Send(S1, [Msg("roundResult", ToAll) EXCEPT !.word = S1.currentWord])
    IN  IF isFFA
        THEN LET winners == CheckFFAWinCondition(S2)
             IN  IF Len(winners) = 1 THEN Schedule(S2, Continuation("ffaGameOver", -1, winners))
                 ELSE IF Len(winners) > 1 THEN Schedule(S2, Continuation("suddenDeath", -1, winners))
                 ELSE Schedule(S2, Continuation("nextRound", -1, <<>>))
        ELSE LET winner == CheckWinCondition(S2)
             IN  IF winner # -1 THEN Schedule(S2, Continuation("teamGameOver", winner, <<>>))
                 ELSE Schedule([S2 EXCEPT !.activeTeamIndex = (@ + 1) % Len(S2.teams)],
                               Continuation("nextRound", -1, <<>>))

\* endSuddenDeathWin(winnerSessionId)
EndSuddenDeathWin(S, winnerSessionId) ==
    [ClearTimers(S) EXCEPT !.isSuddenDeath = FALSE,
                           !.winnerSessionIds = <<winnerSessionId>>,
                           !.phase = "game-over"]

\* startSuddenDeath(tiedIds)
StartSuddenDeath(S, tiedIds, words) ==
    LET S1 == [ClearTimers(S) EXCEPT !.isSuddenDeath = TRUE,
                                     !.winnerSessionIds = tiedIds,
                                     !.guesses = <<>>, !.wordHint = <<>>,
                                     !.currentWord = <<>>]
        drawerId == GetSuddenDeathDrawer(S1, tiedIds)
    IN  IF drawerId = NoSession THEN [S1 EXCEPT !.phase = "game-over"]
        ELSE OfferWords(
                 [S1 EXCEPT !.currentDrawer = drawerId,
                            !.players = [i \in DOMAIN S1.players |->
                                [S1.players[i] EXCEPT !.role =
                                    IF S1.players[i].sessionId = drawerId THEN "drawer"
                                    ELSE IF S1.players[i].sessionId \in Range(tiedIds) THEN "guesser"
                                    ELSE "spectator"]]],
                 drawerId, words)

\* is the guess the secret word: trim + lower-case against lower-cased word
IsCorrectGuess(guessText, word) == ToLowerCase(Trim(guessText)) = ToLowerCase(word)

\* processGuess(playerId, nickname, guessText)
ProcessGuess(S, playerId, nickname, guessText) ==
    LET isCorrect == IsCorrectGuess(guessText, S.currentWord)
        entry == [playerId |-> playerId, nickname |-> nickname,
                  text |-> IF isCorrect THEN Str_Correct ELSE guessText,
                  isCorrect |-> isCorrect]
        S1 == [S EXCEPT !.guesses = Append(@, entry)]
        announce == [Msg("correctGuess", ToAll) EXCEPT !.word = S.currentWord]
    IN  IF ~isCorrect THEN S1
        ELSE IF S1.settings.gameMode = "ffa"
        THEN IF S1.isSuddenDeath
             THEN EndSuddenDeathWin(Send(S1, announce), playerId)
             ELSE EndRound(Send(AwardPlayerPoint(S1, playerId), announce), TRUE)
        ELSE EndRound(Send(AwardPoint(S1, S1.activeTeamIndex), announce), TRUE)

\* a countdown that counts the wrong way
TickCallbackCountsUp(S) == [S EXCEPT !.timeRemaining = @ + 1]

\* the setInterval callback of selectWord that counts down
TickCallback(S) ==
    LET S1 == [S EXCEPT !.timeRemaining = @ - 1]
    IN  IF S1.timeRemaining <= 0 THEN EndRound(S1, FALSE) ELSE S1

\* the setInterval callback of selectWord that reveals a letter
HintCallback(S, hint) == [S EXCEPT !.wordHint = hint]

\* a continuation that starts the next round whatever the win check said
RunContinuationNextRound(S, c, words) == StartNextRound(S, words)

\* the setTimeout callbacks of endRound
RunContinuation(S, c, words) ==
    CASE c.kind = "ffaGameOver" ->
            [S EXCEPT !.winnerSessionIds = c.winners, !.phase = "game-over"]
      [] c.kind = "suddenDeath" -> StartSuddenDeath(S, c.winners, words)
      [] c.kind = "teamGameOver" ->
            [S EXCEPT !.winningTeamIndex = c.winner, !.phase = "game-over"]
      [] OTHER -> StartNextRound(S, words)

\* reset()
Reset(S) ==
    [ClearTimers(S) EXCEPT !.currentWord = <<>>, !.wordChoicesCache = <<>>,
                           !.isSuddenDeath = FALSE, !.winnerSessionIds = <<>>]

\* --------------------------------------------------------------- GameRoom
ChatLimit == 100
ChatDrop == 50

NewPlayer(sid, nickname, color, teamIndex, role, isHost) ==
    [sessionId |-> sid, nickname |-> nickname, avatarColor |-> color,
     teamIndex |-> teamIndex, role |-> role, isHost |-> isHost,
     isConnected |-> TRUE]

\* the first disconnected player with a case-insensitively equal nickname
RejoinIdx(ps, nickname) ==
    LET hit == {i \in DOMAIN ps :
                   /\ ~ps[i].isConnected
                   /\ ToLowerCase(ps[i].nickname) = ToLowerCase(nickname)}
    IN  IF hit = {} THEN 0 ELSE CHOOSE i \in hit : \A j \in hit : i <= j

\* onJoin, the branch that restores a disconnected player under the new id
RestorePlayer(S, sid, i) ==
    LET old == S.players[i]
        player == NewPlayer(sid, old.nickname, old.avatarColor, old.teamIndex,
                            old.role, old.isHost)
        S1 == IF player.teamIndex >= 0 /\ HasTeam(S.teams, player.teamIndex)
              THEN LET q == TeamAt(S.teams, player.teamIndex).drawerQueue
                       queueIdx == IndexOf(q, old.sessionId)
                   IN  [S EXCEPT !.teams[player.teamIndex + 1].drawerQueue =
                                     IF queueIdx # 0 THEN [q EXCEPT ![queueIdx] = sid]
                                     ELSE Append(q, sid)]
              ELSE S
        S2 == IF S1.currentDrawer = old.sessionId
              THEN [S1 EXCEPT !.currentDrawer = sid] ELSE S1
    IN  [S2 EXCEPT !.players = Append(RemoveAt(S2.players, i), player),
                   !.detachedHost = IF old.sessionId \in S2.grace /\ old.isHost
                                    THEN @ \cup {old.sessionId} ELSE @]

\* the strokeHistory message of onJoin and of the reconnection branch
SendStrokeHistory(S, sid) ==
    IF S.phase = "drawing" /\ Len(S.strokeHistory) > 0
    THEN Send(S, [Msg("strokeHistory", sid) EXCEPT !.strokes = S.strokeHistory])
    ELSE S

\* onJoin(client, {nickname}); the client is in this.clients already
OnJoin(S, sid, nickname) ==
    LET S0 == [S EXCEPT !.clients = @ \cup {sid}, !.nextSession = @ + 1]
        i == RejoinIdx(S0.players, nickname)
        S1 == IF i # 0 THEN RestorePlayer(S0, sid, i)
              ELSE [S0 EXCEPT !.players = Append(@,
                                  NewPlayer(sid, nickname,
                                            S0.colorIndex % NumAvatarColors,
                                            NoTeam, "spectator",
                                            Cardinality(S0.clients) = 1)),
                              !.colorIndex = @ + 1]
    IN  SendStrokeHistory(S1, sid)

\* "Re-assign host if needed"
PromoteHost(S, wasHost) ==
    IF wasHost /\ Cardinality(S.clients) > 0 /\ S.players # <<>>
    THEN [S EXCEPT !.players[1].isHost = TRUE]
    ELSE S

\* this.disconnect() with no client left, then onDispose()
Dispose(S) == [ClearTimers(S) EXCEPT !.disposed = TRUE]

DisposeIfEmpty(S) == IF Cardinality(S.clients) = 0 THEN Dispose(S) ELSE S

\* onLeave(client, consented) up to the await; the client has left this.clients
OnLeave(S, sid, consented) ==
    LET S0 == [S EXCEPT !.clients = @ \ {sid}]
    IN  IF ~HasPlayer(S0.players, sid)
        THEN \* return; an empty room without reserved seats is auto-disposed
             IF S0.grace = {} THEN DisposeIfEmpty(S0) ELSE S0
        ELSE LET wasHost == PlayerOf(S0.players, sid).isHost
             IN  IF consented
                 THEN DisposeIfEmpty(
                          PromoteHost([HandleDisconnect(S0, sid) EXCEPT
                                          !.players = DeletePlayer(@, sid)],
                                      wasHost))
                 ELSE [HandleDisconnect(S0, sid) EXCEPT !.grace = @ \cup {sid}]

\* onLeave after allowReconnection resolved: the same client is back
OnReconnected(S, sid) ==
    LET S0 == [S EXCEPT !.clients = @ \cup {sid}, !.grace = @ \ {sid},
                        !.detachedHost = @ \ {sid}]
    IN  DisposeIfEmpty(SendStrokeHistory(HandleReconnect(S0, sid), sid))

\* onLeave after allowReconnection rejected: the catch block
OnReconnectFailed(S, sid) ==
    LET wasHost == IF HasPlayer(S.players, sid)
                   THEN PlayerOf(S.players, sid).isHost
                   ELSE sid \in S.detachedHost
        S0 == [S EXCEPT !.grace = @ \ {sid}, !.detachedHost = @ \ {sid},
                        !.players = DeletePlayer(@, sid)]
    IN  DisposeIfEmpty(PromoteHost(S0, wasHost))

\* a host test that lets every player pass
IsHostAnyone(S, sid) == HasPlayer(S.players, sid)

\* player?.isHost
IsHost(S, sid) == HasPlayer(S.players, sid) /\ PlayerOf(S.players, sid).isHost

ErrorTo(S, sid) == Send(S, Msg("error", sid))

\* MSG.SET_GAME_MODE
SetGameModeHandler(S, sid, mode) ==
    IF S.phase # "mode-select" THEN S
    ELSE IF ~IsHost(S, sid) THEN ErrorTo(S, sid)
    ELSE IF mode # "teams" /\ mode # "ffa" THEN ErrorTo(S, sid)
    ELSE LET S1 == [S EXCEPT !.settings.gameMode = mode]
             S2 == IF mode = "teams" /\ Len(S1.teams) = 0 THEN InitTeams(S1, 2) ELSE S1
         IN  [S2 EXCEPT !.phase = "lobby"]

InLobby(S) == S.phase = "lobby" \/ S.phase = "team-select"

\* MSG.JOIN_TEAM
JoinTeamHandler(S, sid, teamIndex) ==
    IF ~InLobby(S) THEN S
    ELSE IF ~HasPlayer(S.players, sid) THEN S
    ELSE JoinTeam(S, sid, teamIndex)

\* MSG.SPECTATE
SpectateHandler(S, sid) ==
    IF ~InLobby(S) THEN S
    ELSE IF ~HasPlayer(S.players, sid) THEN S
    ELSE SetSpectator(S, sid)

\* "Apply settings": a falsy field of the payload leaves the setting alone
ApplySettings(s, d) ==
    [s EXCEPT !.winMode = IF d.winMode # "" THEN d.winMode ELSE @,
              !.targetScore = IF d.targetScore # 0 THEN d.targetScore ELSE @,
              !.totalRounds = IF d.totalRounds # 0 THEN d.totalRounds ELSE @,
              !.drawTime = IF d.drawTime # 0 THEN d.drawTime ELSE @]

\* MSG.START_GAME
StartGameHandler(S, sid, d) ==
    IF ~IsHost(S, sid) THEN ErrorTo(S, sid)
    ELSE IF ~CanStartGame(S) THEN ErrorTo(S, sid)
    ELSE [S EXCEPT !.settings = ApplySettings(@, d), !.startPending = @ + 1]

\* MSG.SELECT_WORD
SelectWordHandler(S, sid, wordIndex) ==
    IF S.phase # "word-select" THEN S
    ELSE IF sid # S.currentDrawer THEN S
    ELSE SelectWord(S, wordIndex)

\* a canvas guard that forgets who the sender is
MayDrawAnyone(S, sid) == S.phase = "drawing"

\* the two early returns shared by MSG.DRAW, MSG.CLEAR_CANVAS and MSG.UNDO
MayDraw(S, sid) == S.phase = "drawing" /\ sid = S.currentDrawer

\* MSG.DRAW
DrawHandler(S, sid, stroke) ==
    IF ~MayDraw(S, sid) THEN S
    ELSE Send([S EXCEPT !.strokeHistory = Append(@, stroke)],
              [Msg("draw", -sid) EXCEPT !.strokes = <<stroke>>])

\* MSG.CLEAR_CANVAS
ClearCanvasHandler(S, sid) ==
    IF ~MayDraw(S, sid) THEN S
    ELSE Send([S EXCEPT !.strokeHistory = <<>>], Msg("clearCanvas", ToAll))

\* MSG.UNDO
UndoHandler(S, sid) ==
    IF ~MayDraw(S, sid) THEN S
    ELSE Send([S EXCEPT !.strokeHistory =
                            IF Len(@) > 0 THEN SubSeq(@, 1, Len(@) - 1) ELSE @],
              Msg("undo", ToAll))

\* MSG.GUESS
GuessHandler(S, sid, text) ==
    IF S.phase # "drawing" THEN S
    ELSE IF ~HasPlayer(S.players, sid) THEN S
    ELSE LET player == PlayerOf(S.players, sid)
         IN  IF S.settings.gameMode = "ffa" /\ player.sessionId = S.currentDrawer THEN S
             ELSE IF S.settings.gameMode = "ffa" /\ S.isSuddenDeath /\ player.role # "guesser"
             THEN ErrorTo(S, sid)
             ELSE IF S.settings.gameMode # "ffa" /\ player.role # "guesser"
             THEN ErrorTo(S, sid)
             ELSE IF text = <<>> \/ Len(Trim(text)) = 0 THEN S
             ELSE ProcessGuess(S, sid, player.nickname, text)

\* MSG.CHAT
ChatHandler(S, sid, text) ==
    IF ~HasPlayer(S.players, sid) THEN S
    ELSE LET player == PlayerOf(S.players, sid)
         IN  IF player.role = "guesser" /\ S.phase = "drawing" THEN ErrorTo(S, sid)
             ELSE IF text = <<>> \/ Len(Trim(text)) = 0 THEN S
             ELSE LET log == Append(S.chatMessages,
                                    [playerId |-> sid, nickname |-> player.nickname,
                                     text |-> Trim(text)])
                  IN  [S EXCEPT !.chatMessages =
                          IF Len(log) > ChatLimit
                          THEN SubSeq(log, ChatDrop + 1, Len(log)) ELSE log]

\* MSG.PLAY_AGAIN
PlayAgainHandler(S, sid) ==
    IF ~IsHost(S, sid) THEN S
    ELSE LET S1 == RoomClearCanvas(Reset(S))
             S2 == [S1 EXCEPT !.currentRound = 0, !.winningTeamIndex = -1,
                              !.guesses = <<>>, !.chatMessages = <<>>,
                              !.currentDrawer = NoSession, !.wordHint = <<>>,
                              !.timeRemaining = 0, !.isSuddenDeath = FALSE,
                              !.winnerSessionIds = <<>>]
             S3 == ResetPlayerScores(ResetScores(S2))
             S4 == [S3 EXCEPT !.players = [i \in DOMAIN S3.players |->
                                  [S3.players[i] EXCEPT !.role = "spectator",
                                                        !.teamIndex = NoTeam]]]
         IN  [InitTeams(S4, 2) EXCEPT !.settings.gameMode = "teams",
                                      !.phase = "mode-select"]

\* ----------------------------------------------------------------- inputs
\* a joining client is either someone new, under a name nobody has used, or
\* uses the name of a disconnected player, typed in the other case
FreshName(n) == IF n = 1 THEN <<"a">> ELSE IF n = 2 THEN <<"b">> ELSE IF n = 3 THEN <<"c">> ELSE <<"d">>

UpperChar(c) ==
    CASE c = "a" -> "A"
      [] c = "b" -> "B"
      [] c = "c" -> "C"
      [] c = "d" -> "D"
      [] OTHER -> c

NicknameInputs ==
    {FreshName(nextSession)} \cup
    {[k \in DOMAIN players[i].nickname |-> UpperChar(players[i].nickname[k])] :
        i \in {j \in DOMAIN players : ~players[j].isConnected}}

GameModeInputs == {"teams", "ffa", "bogus"}
TeamIndexInputs == {0, 1, 2}
WordIndexInputs == {0, 3}
\* two strokes the drawer's client draws, each labelled with the round it is
\* drawn in (the sudden-death round repeats the number of the last round)
StrokeInputs ==
    {[id |-> k, round |-> currentRound, suddenDeath |-> isSuddenDeath] : k \in {1, 2}}
GuessInputs == {Str_OWL_padded, Str_blank}
ChatInputs == {Str_owl, Str_blank}

\* settings payloads of startGame; "" and 0 are the absent (falsy) fields
RoundsSettings ==
    [winMode |-> "rounds", targetScore |-> 0, totalRounds |-> 2, drawTime |-> 2]

PointsSettings ==
    [winMode |-> "points", targetScore |-> 1, totalRounds |-> 0, drawTime |-> 3]

SettingsInputs == {PointsSettings, RoundsSettings}

\* a teams game to two points, with a short drawing time
TargetTwoSettings ==
    [winMode |-> "points", targetScore |-> 2, totalRounds |-> 0, drawTime |-> 2]

\* ------------------------------------------------------------------- Init
\* onCreate(): new GameState(), initTeams(2), phase = 'mode-select'
Init ==
    /\ players = <<>>
    /\ clients = {}
    /\ nextSession = 1
    /\ colorIndex = 0
    /\ grace = {}
    /\ detachedHost = {}
    /\ disposed = FALSE
    /\ phase = "mode-select"
    /\ teams = <<NewTeam(TeamPresetName(1)), NewTeam(TeamPresetName(2))>>
    /\ settings = [gameMode |-> "teams", winMode |-> "points",
                   targetScore |-> DefaultTargetScore,
                   totalRounds |-> DefaultTotalRounds,
                   drawTime |-> DefaultDrawTime]
    /\ currentRound = 0
    /\ activeTeamIndex = 0
    /\ currentDrawer = NoSession
    /\ wordHint = <<>>
    /\ timeRemaining = 0
    /\ guesses = <<>>
    /\ chatMessages = <<>>
    /\ winningTeamIndex = -1
    /\ playerScores = <<>>
    /\ winnerSessionIds = <<>>
    /\ isSuddenDeath = FALSE
    /\ timer = "none"
    /\ hintTimer = FALSE
    /\ armed = [autopick |-> 0, tick |-> 0, hint |-> 0]
    /\ currentWord = <<>>
    /\ wordChoicesCache = <<>>
    /\ strokeHistory = <<>>
    /\ startPending = 0
    /\ roundEndPending = <<>>
    /\ sent = {}

\* the score maps a game can hold: a player has an entry once it has a point
ScoreEntries(id) == {<<>>} \cup {<<[id |-> id, score |-> v]>> : v \in 1 .. MaxScore}

PlayerScoreInputs ==
    {a \o b \o c : a \in ScoreEntries(1), b \in ScoreEntries(2), c \in ScoreEntries(3)}
    \cup {c \o b \o a : a \in ScoreEntries(1), b \in ScoreEntries(2), c \in ScoreEntries(3)}

\* a round is ending: any scores, win mode, target and round number
InitWin ==
    /\ players = <<>>
    /\ clients = {}
    /\ nextSession = 1
    /\ colorIndex = 0
    /\ grace = {}
    /\ detachedHost = {}
    /\ disposed = FALSE
    /\ phase = "round-end"
    /\ \E mode \in {"teams", "ffa"}, winMode \in {"points", "rounds"},
          targetScore \in 1 .. MaxScore, totalRounds \in 1 .. MaxRound :
           /\ settings = [gameMode |-> mode, winMode |-> winMode,
                          targetScore |-> targetScore, totalRounds |-> totalRounds,
                          drawTime |-> DefaultDrawTime]
           /\ IF mode = "teams"
              THEN /\ \E a, b \in 0 .. MaxScore :
                          teams = <<[NewTeam(TeamPresetName(1)) EXCEPT !.score = a],
                                    [NewTeam(TeamPresetName(2)) EXCEPT !.score = b]>>
                   /\ playerScores = <<>>
              ELSE /\ teams = <<NewTeam("FFA")>>
                   /\ playerScores \in PlayerScoreInputs
    /\ currentRound \in 1 .. MaxRoundTeams
    /\ activeTeamIndex = 0
    /\ currentDrawer = NoSession
    /\ wordHint = <<>>
    /\ timeRemaining = 0
    /\ guesses = <<>>
    /\ chatMessages = <<>>
    /\ winningTeamIndex = -1
    /\ winnerSessionIds = <<>>
    /\ isSuddenDeath = FALSE
    /\ timer = "none"
    /\ hintTimer = FALSE
    /\ armed = [autopick |-> 0, tick |-> 0, hint |-> 0]
    /\ currentWord = <<>>
    /\ wordChoicesCache = <<>>
    /\ strokeHistory = <<>>
    /\ startPending = 0
    /\ roundEndPending = <<>>
    /\ sent = {}

\* ---------------------------------------------------------------- actions
\* a client joins the room (create or joinById)
JoinUpTo(n) ==
    /\ ~disposed
    /\ nextSession <= n
    /\ Cardinality(clients) < MaxClients
    /\ \E nickname \in NicknameInputs : Commit(OnJoin(Cur, nextSession, nickname))

Join == JoinUpTo(MaxSessions)

\* the same, in a room that sees fewer sessions
JoinFew == JoinUpTo(FewSessions)

\* a client leaves, with or without consent
Leave ==
    /\ ~disposed
    /\ \E sid \in clients, consented \in BOOLEAN :
           /\ ~consented => Cardinality(grace) < MaxGrace
           /\ Commit(OnLeave(Cur, sid, consented))

\* the same client reconnects inside its grace window
Reconnected ==
    /\ ~disposed
    /\ \E sid \in grace : Commit(OnReconnected(Cur, sid))

\* a grace window expires (or is rejected by the room's disconnect)
ReconnectFailed ==
    \E sid \in grace : Commit(OnReconnectFailed(Cur, sid))

SetGameModeMsg ==
    /\ ~disposed
    /\ \E sid \in clients, mode \in GameModeInputs :
           Commit(SetGameModeHandler(Cur, sid, mode))

JoinTeamMsg ==
    /\ ~disposed
    /\ \E sid \in clients, teamIndex \in TeamIndexInputs :
           Commit(JoinTeamHandler(Cur, sid, teamIndex))

SpectateMsg ==
    /\ ~disposed
    /\ \E sid \in clients : Commit(SpectateHandler(Cur, sid))

StartGameWith(ds) ==
    /\ ~disposed
    /\ startPending < MaxStartPending
    /\ \E sid \in clients, d \in ds :
           Commit(StartGameHandler(Cur, sid, d))

\* startGame sent in any phase, as the handler accepts it
StartGameMsg == StartGameWith(SettingsInputs)

\* startGame sent by a client whose lobby screen shows the start button
StartGameInLobbyMsg == phase = "lobby" /\ StartGameWith({RoundsSettings})

\* the host starts an FFA game to one point
StartFFAGameMsg ==
    /\ phase = "lobby"
    /\ settings.gameMode = "ffa"
    /\ StartGameWith({PointsSettings})

\* the host starts a teams game to two points
StartTeamsGameMsg ==
    /\ phase = "lobby"
    /\ settings.gameMode = "teams"
    /\ StartGameWith({TargetTwoSettings})

\* the 500 ms timeout of the startGame handler fires
StartGameFire ==
    /\ startPending > 0
    /\ \E words \in PickRandomWords :
           Commit(StartGame([Cur EXCEPT
                                !.startPending = @ - 1,
                                !.roundEndPending =
                                    [i \in DOMAIN @ |-> [@[i] EXCEPT !.after = Dec(@)]]],
                            words))

SelectWordMsg ==
    /\ ~disposed
    /\ \E sid \in clients, wordIndex \in WordIndexInputs :
           Commit(SelectWordHandler(Cur, sid, wordIndex))

\* the 15 s auto-pick timeout fires
\* (a 5 s continuation that is pending was scheduled before the word choice
\* began, so it fires first)
AutoPickFire ==
    /\ armed.autopick > 0
    /\ roundEndPending = <<>>
    /\ \E index \in 0 .. (NumWordChoices - 1) :
           Commit(SelectWord([Cur EXCEPT !.armed.autopick = @ - 1], index))

DrawMsg ==
    /\ ~disposed
    /\ Len(strokeHistory) < MaxStrokes
    /\ \E sid \in clients, stroke \in StrokeInputs :
           Commit(DrawHandler(Cur, sid, stroke))

ClearCanvasMsg ==
    /\ ~disposed
    /\ \E sid \in clients : Commit(ClearCanvasHandler(Cur, sid))

UndoMsg ==
    /\ ~disposed
    /\ \E sid \in clients : Commit(UndoHandler(Cur, sid))

GuessMsg ==
    /\ ~disposed
    /\ Len(guesses) < MaxGuesses
    /\ Len(roundEndPending) < MaxRoundEndPending
    /\ \E sid \in clients, text \in GuessInputs :
           Commit(GuessHandler(Cur, sid, text))

ChatMsg ==
    /\ ~disposed
    /\ Len(chatMessages) < MaxChat
    /\ \E sid \in clients, text \in ChatInputs :
           Commit(ChatHandler(Cur, sid, text))

\* chat sent while a drawing is under way
ChatWhileDrawingMsg == phase = "drawing" /\ ChatMsg

PlayAgainMsg ==
    /\ ~disposed
    /\ \E sid \in clients : Commit(PlayAgainHandler(Cur, sid))

\* the 1 s countdown interval fires
Tick ==
    /\ armed.tick > 0
    /\ timeRemaining > 1 \/ Len(roundEndPending) < MaxRoundEndPending
    /\ Commit(TickCallback(Cur))

\* the hint interval fires
HintFire ==
    /\ armed.hint > 0
    /\ Cardinality({i \in DOMAIN currentWord : currentWord[i] # " "})
         - Cardinality(HiddenPositions(currentWord, SplitSpace(wordHint))) < MaxHintReveals
    /\ \E hint \in RevealLetter(currentWord, wordHint) :
           Commit(HintCallback(Cur, hint))

\* the oldest 5 s round-end timeout fires
RoundEndFireUpTo(n) ==
    /\ roundEndPending # <<>>
    /\ Head(roundEndPending).after = 0
    /\ Head(roundEndPending).kind \in {"nextRound"} => currentRound < n
    /\ \E words \in PickRandomWords :
           Commit(RunContinuation([Cur EXCEPT !.roundEndPending = Tail(@)],
                                  Head(roundEndPending), words))

RoundEndFire == RoundEndFireUpTo(MaxRound)

\* the same, in a game that is followed for one round more
RoundEndFireTeams == RoundEndFireUpTo(MaxRoundTeams)

\* joins, leaves and reconnections at any moment of one game
Next ==
    \/ Join
    \/ Leave
    \/ Reconnected
    \/ ReconnectFailed
    \/ SetGameModeMsg
    \/ JoinTeamMsg
    \/ SpectateMsg
    \/ StartGameInLobbyMsg
    \/ StartGameFire
    \/ SelectWordMsg
    \/ AutoPickFire
    \/ GuessMsg
    \/ Tick
    \/ RoundEndFire

Spec == Init /\ [][Next]_vars

\* games started over: startGame in any phase, playAgain
NextReplay ==
    \/ JoinFew
    \/ SetGameModeMsg
    \/ JoinTeamMsg
    \/ StartGameMsg
    \/ StartGameFire
    \/ SelectWordMsg
    \/ AutoPickFire
    \/ GuessMsg
    \/ PlayAgainMsg
    \/ Tick
    \/ RoundEndFire

SpecReplay == Init /\ [][NextReplay]_vars

\* the canvas during a game
NextCanvas ==
    \/ JoinFew
    \/ SetGameModeMsg
    \/ JoinTeamMsg
    \/ StartGameInLobbyMsg
    \/ StartGameFire
    \/ SelectWordMsg
    \/ DrawMsg
    \/ ClearCanvasMsg
    \/ UndoMsg
    \/ GuessMsg
    \/ Tick
    \/ RoundEndFire

SpecCanvas == Init /\ [][NextCanvas]_vars

\* chat and hints during a game
NextChat ==
    \/ JoinFew
    \/ SetGameModeMsg
    \/ JoinTeamMsg
    \/ StartGameInLobbyMsg
    \/ StartGameFire
    \/ SelectWordMsg
    \/ GuessMsg
    \/ ChatWhileDrawingMsg
    \/ HintFire
    \/ Tick
    \/ RoundEndFire

SpecChat == Init /\ [][NextChat]_vars

\* one teams game to two points, with leaves and reconnections
NextTeams ==
    \/ Join
    \/ Leave
    \/ Reconnected
    \/ ReconnectFailed
    \/ SetGameModeMsg
    \/ JoinTeamMsg
    \/ StartTeamsGameMsg
    \/ StartGameFire
    \/ SelectWordMsg
    \/ GuessMsg
    \/ Tick
    \/ RoundEndFireTeams

SpecTeams == Init /\ [][NextTeams]_vars

\* one FFA game to one point, three clients, with leaves and reconnections
NextFFA ==
    \/ Join
    \/ Leave
    \/ Reconnected
    \/ ReconnectFailed
    \/ SetGameModeMsg
    \/ StartFFAGameMsg
    \/ StartGameFire
    \/ SelectWordMsg
    \/ GuessMsg
    \/ Tick
    \/ RoundEndFire

SpecFFA == Init /\ [][NextFFA]_vars

\* endRound asks the teams win check and keeps the answer
CheckWin ==
    /\ settings.gameMode = "teams"
    /\ Commit([Cur EXCEPT !.winningTeamIndex = CheckWinCondition(Cur)])

\* endRound asks the FFA win check and keeps the answer
CheckFFAWin ==
    /\ settings.gameMode = "ffa"
    /\ Commit([Cur EXCEPT !.winnerSessionIds = CheckFFAWinCondition(Cur)])

\* the win checks on every combination of their inputs
NextWin ==
    \/ CheckWin
    \/ CheckFFAWin

SpecWin == InitWin /\ [][NextWin]_vars

\* a room without playAgain whose armed timers eventually fire: Node runs
\* every timeout and interval callback that has not been cancelled. The
\* fairness of the 500 ms start timeout is weak fairness written out, with
\* the enabling condition of StartGameFire (a start is pending) in place of
\* ENABLED.
NextLive ==
    \/ JoinFew
    \/ SetGameModeMsg
    \/ StartGameMsg
    \/ StartGameFire
    \/ SelectWordMsg
    \/ AutoPickFire
    \/ GuessMsg
    \/ Tick
    \/ RoundEndFire

SpecLive ==
    /\ Init
    /\ [][NextLive]_vars
    /\ ([]<>(startPending = 0) \/ []<><<StartGameFire>>_vars)
    /\ WF_vars(AutoPickFire)
    /\ WF_vars(Tick)
    /\ WF_vars(RoundEndFire)

\* secret words of the bank, single words and words with a space
HintWords ==
    {Str_owl, Str_fox, Str_bat,
     <<"h", "o", "t", " ", "d", "o", "g">>,
     <<"i", "c", "e", " ", "c", "r", "e", "a", "m">>}

\* the room when selectWord has just taken a secret word and armed the
\* hint interval
InitHint ==
    /\ players = <<>>
    /\ clients = {}
    /\ nextSession = 1
    /\ colorIndex = 0
    /\ grace = {}
    /\ detachedHost = {}
    /\ disposed = FALSE
    /\ phase = "drawing"
    /\ teams = <<NewTeam("FFA")>>
    /\ settings = [gameMode |-> "ffa", winMode |-> "points",
                   targetScore |-> DefaultTargetScore,
                   totalRounds |-> DefaultTotalRounds,
                   drawTime |-> DefaultDrawTime]
    /\ currentRound = 1
    /\ activeTeamIndex = 0
    /\ currentDrawer = NoSession
    /\ currentWord \in HintWords
    /\ wordHint = GenerateHint(currentWord)
    /\ timeRemaining = DefaultDrawTime
    /\ guesses = <<>>
    /\ chatMessages = <<>>
    /\ winningTeamIndex = -1
    /\ playerScores = <<>>
    /\ winnerSessionIds = <<>>
    /\ isSuddenDeath = FALSE
    /\ timer = "tick"
    /\ hintTimer = TRUE
    /\ armed = [autopick |-> 0, tick |-> 1, hint |-> 1]
    /\ wordChoicesCache = <<>>
    /\ strokeHistory = <<>>
    /\ startPending = 0
    /\ roundEndPending = <<>>
    /\ sent = {}

\* the hint interval fires, as often as the round lasts
HintReveal ==
    /\ armed.hint > 0
    /\ \E hint \in RevealLetter(currentWord, wordHint) :
           Commit(HintCallback(Cur, hint))

\* the hints of every secret word of HintWords
SpecHint == InitHint /\ [][HintReveal]_vars

\* the host presses start a second time while the lobby is still shown
StartGameTwiceMsg ==
    /\ ~disposed
    /\ phase = "lobby"
    /\ startPending < MaxLobbyStarts
    /\ \E sid \in clients :
           Commit(StartGameHandler(Cur, sid, RoundsSettings))

\* an FFA game whose start was requested more than once
NextTwoStarts ==
    \/ JoinFew
    \/ Leave
    \/ SetGameModeMsg
    \/ StartGameTwiceMsg
    \/ StartGameFire
    \/ SelectWordMsg
    \/ GuessMsg
    \/ RoundEndFire

SpecTwoStarts == Init /\ [][NextTwoStarts]_vars

\* ----------------------------------------------------------------- claims
RoundPhases == {"word-select", "drawing"}

Drawers == {i \in DOMAIN players : players[i].role = "drawer"}

Hosts == {i \in DOMAIN players : players[i].isHost}

\* C1: exactly one player has role drawer in word-select and in drawing, and
\* no player has role drawer in any other phase.
C1_OneDrawerIffRoundPhase ==
    IF phase \in RoundPhases
    THEN Cardinality(Drawers) = 1
    ELSE Cardinality(Drawers) = 0

\* C2: currentDrawer names a player of the map who is connected exactly when
\* the phase is word-select or drawing.
C2_CurrentDrawerLiveIffRoundPhase ==
    (/\ HasPlayer(players, currentDrawer)
     /\ PlayerOf(players, currentDrawer).isConnected)
        <=> phase \in RoundPhases

\* C3: a player's sessionId occurs exactly once in the drawer queue of the
\* team its teamIndex names and in no other queue; a player with teamIndex
\* -1 occurs in no queue.
C3_QueuesMatchTeamIndex ==
    \A t \in DOMAIN teams : \A i \in DOMAIN players :
        Count(teams[t].drawerQueue, players[i].sessionId)
            = IF players[i].teamIndex = t - 1 THEN 1 ELSE 0

\* C4: while at least one client is connected, exactly one player of the map
\* has isHost = true.
C4_OneHostWhileConnected ==
    clients # {} => Cardinality(Hosts) = 1

\* C5: the stroke history is empty when a round begins (the phase is
\* word-select, where no stroke is accepted, for a normal and for a
\* sudden-death round) and right after a clearCanvas that was carried out.
C5_StrokesEmptyAtRoundStart ==
    /\ phase = "word-select" => strokeHistory = <<>>
    /\ (\E m \in sent : m.type = "clearCanvas") => strokeHistory = <<>>

\* the replicated fields and the messages that carry the word w
InChat(w) ==
    \E i \in DOMAIN chatMessages : Contains(ToLowerCase(chatMessages[i].text), w)

InGuesses(w) ==
    \E i \in DOMAIN guesses : Contains(ToLowerCase(guesses[i].text), w)

InHint(w) ==
    LET h == SplitSpace(wordHint)
    IN  Len(h) = Len(w) /\ \A i \in DOMAIN w : h[i] = <<w[i]>>

InBroadcast(w) ==
    \E m \in sent :
        /\ m.word = w \/ (\E k \in DOMAIN m.words : m.words[k] = w)
        /\ ~(m.type = "secretWord" /\ m.to = currentDrawer)

\* C6: while a drawing is under way the secret word is in no replicated
\* field (guesses, wordHint, chatMessages) and in no message but the
\* secretWord message directed to the current drawer.
C6_SecretWordOnlyToDrawer ==
    (phase = "drawing" /\ currentWord # <<>>) =>
        /\ ~InChat(currentWord)
        /\ ~InGuesses(currentWord)
        /\ ~InHint(currentWord)
        /\ ~InBroadcast(currentWord)

\* C7: in an FFA game in sudden death, every player whose role is guesser has
\* its sessionId in winnerSessionIds.
C7_SuddenDeathGuessersAreTied ==
    (settings.gameMode = "ffa" /\ isSuddenDeath) =>
        \A i \in DOMAIN players :
            players[i].role = "guesser" =>
                players[i].sessionId \in Range(winnerSessionIds)

\* C8: a step that enters drawing sets timeRemaining to settings.drawTime; a
\* step that stays in drawing leaves timeRemaining as it is or takes exactly
\* one off, so it never grows while the phase stays drawing.
C8_TimeRemainingCountsDown ==
    [][/\ (phase # "drawing" /\ phase' = "drawing")
             => timeRemaining' = settings'.drawTime
       /\ (phase = "drawing" /\ phase' = "drawing")
             => timeRemaining' \in {timeRemaining, timeRemaining - 1}]_vars

\* a countdown tick has acted and the phase is still drawing
C8_Witness ==
    /\ phase = "drawing"
    /\ timeRemaining > 0
    /\ timeRemaining < settings.drawTime

\* C9: a round-end continuation that fires when the phase is no longer
\* round-end (after playAgain: mode-select) changes neither the phase, nor
\* currentRound, nor a role, nor winningTeamIndex, nor winnerSessionIds.
C9_StaleContinuationIsNoOp ==
    [][(/\ roundEndPending # <<>>
        /\ roundEndPending' = Tail(roundEndPending)
        /\ phase # "round-end")
          => /\ phase' = phase
             /\ currentRound' = currentRound
             /\ players' = players
             /\ winningTeamIndex' = winningTeamIndex
             /\ winnerSessionIds' = winnerSessionIds]_vars

\* C10: at most one tick timer and at most one hint timer are armed, and
\* none is armed unless the phase is drawing.
C10_TimersOnlyWhileDrawing ==
    /\ armed.tick <= 1
    /\ armed.hint <= 1
    /\ phase # "drawing" => (armed.tick = 0 /\ armed.hint = 0)

\* C11: once the room is disposed no timer fires: no step takes a pending
\* game-start delay or round-end continuation, changes the armed timers, or
\* changes the phase, the round, the countdown or the hint.
C11_NoTimerAfterDispose ==
    [][disposed =>
          /\ startPending' = startPending
          /\ roundEndPending' = roundEndPending
          /\ armed' = armed
          /\ phase' = phase
          /\ currentRound' = currentRound
          /\ timeRemaining' = timeRemaining
          /\ wordHint' = wordHint]_vars

\* C12: outside lobby and team-select no step schedules a game start or
\* changes a setting that startGame carries (winMode, targetScore,
\* totalRounds, drawTime).
C12_StartGameOnlyInLobby ==
    [][phase \notin {"lobby", "team-select"} =>
          /\ startPending' <= startPending
          /\ settings'.winMode = settings.winMode
          /\ settings'.targetScore = settings.targetScore
          /\ settings'.totalRounds = settings.totalRounds
          /\ settings'.drawTime = settings.drawTime]_vars

\* C13: from game-over a step either stays in game-over or, by playAgain,
\* goes to mode-select.
C13_GameOverUntilPlayAgain ==
    [][phase = "game-over" => phase' \in {"game-over", "mode-select"}]_vars

\* the senders the guess row of the message table admits
GuessAllowed(sid) ==
    /\ phase = "drawing"
    /\ HasPlayer(players, sid)
    /\ IF settings.gameMode # "ffa"
       THEN PlayerOf(players, sid).role = "guesser"
       ELSE /\ sid # currentDrawer
            /\ isSuddenDeath =>
                   /\ sid \in Range(winnerSessionIds)
                   /\ PlayerOf(players, sid).role = "guesser"

\* C14: a guess from a sender the guard does not admit (wrong phase; teams:
\* role not guesser; FFA: the drawer; sudden death: not a tied guesser)
\* leaves guesses, team scores, playerScores and the phase as they are, and
\* an error it causes goes to the sender alone.
C14_GuessOnlyFromAllowedSender ==
    \A sid \in clients, text \in GuessInputs :
        LET S == GuessHandler(Cur, sid, text)
        IN  /\ ~GuessAllowed(sid) =>
                   /\ S.guesses = guesses
                   /\ S.teams = teams
                   /\ S.playerScores = playerScores
                   /\ S.phase = phase
            /\ \A m \in S.sent : m.type = "error" => m.to = sid

\* C15: draw, clearCanvas and undo from a sender that is not the current
\* drawer, or outside drawing, change nothing and send nothing; an accepted
\* draw appends the stroke and goes to every client but the sender; an
\* accepted clearCanvas empties the history, an accepted undo drops the last
\* stroke, and each is announced to every client.
C15_CanvasOnlyByDrawerWhileDrawing ==
    \A sid \in clients, stroke \in StrokeInputs :
        LET D == DrawHandler(Cur, sid, stroke)
            C == ClearCanvasHandler(Cur, sid)
            U == UndoHandler(Cur, sid)
        IN  IF phase = "drawing" /\ sid = currentDrawer
            THEN /\ D.strokeHistory = Append(strokeHistory, stroke)
                 /\ D.sent = {[Msg("draw", -sid) EXCEPT !.strokes = <<stroke>>]}
                 /\ C.strokeHistory = <<>>
                 /\ C.sent = {Msg("clearCanvas", ToAll)}
                 /\ U.strokeHistory =
                        SubSeq(strokeHistory, 1, Len(strokeHistory) - 1)
                 /\ U.sent = {Msg("undo", ToAll)}
            ELSE D = Cur /\ C = Cur /\ U = Cur

\* the drawer's stroke has just been stored and sent to the other clients
C15_Witness ==
    /\ phase = "drawing"
    /\ strokeHistory # <<>>
    /\ \E m \in sent : m.type = "draw" /\ m.to = -currentDrawer
    /\ Cardinality(clients) > 1

\* C16: a join under the nickname of a disconnected player (in either case)
\* keeps that player's role, teamIndex, avatarColor and isHost under the new
\* sessionId, puts the new id where the old one stood in its team's drawer
\* queue with the queue's length and other members as they were, rewrites
\* currentDrawer when it was the old id, and leaves no entry under the old id.
C16_RejoinRestoresPlayerInPlace ==
    \A nickname \in NicknameInputs :
        LET i == RejoinIdx(players, nickname)
        IN  i # 0 =>
              LET old == players[i]
                  sid == nextSession
                  S == OnJoin(Cur, sid, nickname)
                  new == PlayerOf(S.players, sid)
              IN  /\ HasPlayer(S.players, sid)
                  /\ ~HasPlayer(S.players, old.sessionId)
                  /\ new.role = old.role
                  /\ new.teamIndex = old.teamIndex
                  /\ new.avatarColor = old.avatarColor
                  /\ new.isHost = old.isHost
                  /\ S.currentDrawer = IF currentDrawer = old.sessionId
                                       THEN sid ELSE currentDrawer
                  /\ (old.teamIndex >= 0 /\ HasTeam(teams, old.teamIndex)) =>
                         LET q == TeamAt(teams, old.teamIndex).drawerQueue
                             r == TeamAt(S.teams, old.teamIndex).drawerQueue
                         IN  /\ Len(r) = Len(q)
                             /\ sid \in Range(r)
                             /\ \A k \in DOMAIN q :
                                    r[k] = IF q[k] = old.sessionId THEN sid ELSE q[k]

\* the room after the host's playAgain, the 5 s continuation that was
\* pending (when fire says so), and the first game's setGameMode{ffa} and
\* startGame sent again
ReplayRequested(host, fire, words) ==
    LET P == PlayAgainHandler(Cur, host)
        Q == IF fire /\ P.roundEndPending # <<>>
             THEN RunContinuation([P EXCEPT !.roundEndPending = Tail(@)],
                                  Head(P.roundEndPending), words)
             ELSE P
        M == SetGameModeHandler(Q, host, "ffa")
    IN  StartGameHandler(M, host,
                         [winMode |-> settings.winMode,
                          targetScore |-> settings.targetScore,
                          totalRounds |-> settings.totalRounds,
                          drawTime |-> settings.drawTime])

\* C17: in an FFA game, whatever the phase, the host's playAgain followed by
\* the same setGameMode and startGame schedules a game start, and that start
\* gives the state of the first game's start: word-select, round 1, zero
\* scores, the first player of the map drawing and the others guessing, no
\* guesses, no strokes, no sudden death, no winner.
C17_PlayAgainReplaysFirstStart ==
    (settings.gameMode = "ffa" /\ currentRound >= 1) =>
        \A host \in {h \in clients : IsHost(Cur, h)}, fire \in BOOLEAN,
           words \in PickRandomWords :
            LET G == ReplayRequested(host, fire, words)
                F == StartGame([G EXCEPT !.startPending = Dec(@)], words)
            IN  /\ G.startPending = startPending + 1
                /\ F.phase = "word-select"
                /\ F.currentRound = 1
                /\ \A i \in DOMAIN F.playerScores : F.playerScores[i].score = 0
                /\ \A t \in DOMAIN F.teams : F.teams[t].score = 0
                /\ F.currentDrawer = Head(ConnectedIds(players))
                /\ \A i \in DOMAIN F.players :
                       F.players[i].isConnected =>
                           F.players[i].role =
                               IF F.players[i].sessionId = F.currentDrawer
                               THEN "drawer" ELSE "guesser"
                /\ F.guesses = <<>>
                /\ F.strokeHistory = <<>>
                /\ ~F.isSuddenDeath
                /\ F.winningTeamIndex = -1
                /\ F.winnerSessionIds = <<>>

\* C18: the strokeHistory message a client gets when it joins during drawing
\* lists the server's history as it stands, and every stroke of it was
\* accepted in the round that is being drawn.
C18_LateJoinerGetsRoundStrokes ==
    \A nickname \in NicknameInputs :
        LET S == OnJoin(Cur, nextSession, nickname)
        IN  \A m \in S.sent :
                m.type = "strokeHistory" =>
                    /\ m.to = nextSession
                    /\ m.strokes = strokeHistory
                    /\ \A k \in DOMAIN m.strokes :
                           /\ m.strokes[k].round = currentRound
                           /\ m.strokes[k].suddenDeath = isSuddenDeath

\* C19: a client that joins during drawing right after the drawer's
\* clearCanvas, the history being empty, is sent a strokeHistory message
\* with an empty list.
C19_LateJoinerAfterClearGetsEmptyList ==
    (/\ phase = "drawing"
     /\ strokeHistory = <<>>
     /\ \E m \in sent : m.type = "clearCanvas") =>
        \A nickname \in NicknameInputs :
            \E m \in OnJoin(Cur, nextSession, nickname).sent :
                /\ m.type = "strokeHistory"
                /\ m.to = nextSession
                /\ m.strokes = <<>>

C21_FFARoundEnd ==
    [][settings.gameMode = "ffa" =>
          /\ (phase = "drawing" /\ phase' = "round-end") =>
                 LET winners == CheckFFAWinCondition(Cur')
                     c == roundEndPending'[Len(roundEndPending')]
                 IN  /\ Len(roundEndPending') = Len(roundEndPending) + 1
                     /\ c.kind = IF Len(winners) = 1 THEN "ffaGameOver"
                                 ELSE IF Len(winners) > 1 THEN "suddenDeath"
                                 ELSE "nextRound"
                     /\ Len(winners) > 0 => c.winners = winners
          /\ (/\ phase = "round-end"
              /\ roundEndPending # <<>>
              /\ roundEndPending' = Tail(roundEndPending)) =>
                 LET c == Head(roundEndPending)
                 IN  CASE c.kind = "ffaGameOver" ->
                            /\ winnerSessionIds' = c.winners
                            /\ phase' = "game-over"
                            /\ currentRound' = currentRound
                       [] c.kind = "suddenDeath" ->
                            /\ isSuddenDeath'
                            /\ winnerSessionIds' = c.winners
                            /\ phase' = "word-select"
                            /\ currentRound' = currentRound
                       [] OTHER ->
                            /\ ~isSuddenDeath'
                            /\ phase' = "word-select"
                            /\ currentRound' = currentRound + 1]_vars

\* C22: in an FFA points game of three players with targetScore = 1, the
\* correct guess that ends round 1 lets the game go on: the round end
\* schedules the next round (in which a second player can reach one point
\* and tie), not the end of the game.
C22_TargetOneGameGoesOnAfterFirstGuess ==
    [][(/\ settings.gameMode = "ffa"
        /\ settings.winMode = "points"
        /\ settings.targetScore = 1
        /\ Len(players) = 3
        /\ currentRound = 1
        /\ phase = "drawing"
        /\ phase' = "round-end"
        /\ Len(guesses') = Len(guesses) + 1
        /\ guesses'[Len(guesses')].isCorrect)
          => /\ roundEndPending' # <<>>
             /\ roundEndPending'[Len(roundEndPending')].kind = "nextRound"]_vars

\* C23: a consented leave deletes the leaver's entry and leaves its
\* sessionId in no drawer queue (so it is never the next drawer again), and
\* when the leaver was host and clients and players remain, a remaining
\* player is host.
C23_ConsentedLeaveRemovesPlayer ==
    \A sid \in clients :
        HasPlayer(players, sid) =>
            LET S == OnLeave(Cur, sid, TRUE)
            IN  /\ ~HasPlayer(S.players, sid)
                /\ \A t \in DOMAIN S.teams : sid \notin Range(S.teams[t].drawerQueue)
                /\ (PlayerOf(players, sid).isHost /\ S.clients # {}
                                                /\ S.players # <<>>) =>
                       \E i \in DOMAIN S.players : S.players[i].isHost

\* C24: an unconsented disconnect keeps the entry, marked disconnected, with
\* teamIndex, role, isHost and the queues as they were; a reconnect in the
\* grace window marks it connected again; when the window expires the
\* player is removed as by a consented leave: entry deleted, queue entry
\* removed, host reassigned if needed.
C24_GraceWindow ==
    /\ \A sid \in clients :
           HasPlayer(players, sid) =>
               LET S == OnLeave(Cur, sid, FALSE)
                   p == PlayerOf(players, sid)
                   q == PlayerOf(S.players, sid)
               IN  /\ HasPlayer(S.players, sid)
                   /\ ~q.isConnected
                   /\ q.teamIndex = p.teamIndex
                   /\ q.role = p.role
                   /\ q.isHost = p.isHost
                   /\ S.teams = teams
    /\ \A sid \in grace :
           HasPlayer(players, sid) =>
               LET R == OnReconnected(Cur, sid)
                   F == OnReconnectFailed(Cur, sid)
               IN  /\ PlayerOf(R.players, sid).isConnected
                   /\ ~HasPlayer(F.players, sid)
                   /\ \A t \in DOMAIN F.teams :
                          sid \notin Range(F.teams[t].drawerQueue)
                   /\ (PlayerOf(players, sid).isHost /\ F.clients # {}
                                                   /\ F.players # <<>>) =>
                          \E i \in DOMAIN F.players : F.players[i].isHost

\* the start condition of the message table
StartCondition ==
    IF settings.gameMode = "ffa"
    THEN Cardinality({i \in DOMAIN players : players[i].isConnected}) >= 2
    ELSE Cardinality({t \in DOMAIN teams : Len(teams[t].drawerQueue) >= 1}) >= 2

\* C25: the host's startGame schedules a game start only when the start
\* condition holds when it is handled (teams: two teams with a queued
\* player; FFA: two connected players); otherwise the sender gets an error
\* and settings, phase and the pending starts stay as they are.
C25_StartGameNeedsStartCondition ==
    \A sid \in clients, d \in SettingsInputs \cup {TargetTwoSettings} :
        IsHost(Cur, sid) =>
            LET S == StartGameHandler(Cur, sid, d)
            IN  IF StartCondition
                THEN S.startPending = startPending + 1
                ELSE /\ S.sent = {Msg("error", sid)}
                     /\ S.settings = settings
                     /\ S.phase = phase
                     /\ S.startPending = startPending

\* a teams game has been accepted: both teams have a queued player and the
\* start is pending
C25_Witness ==
    /\ settings.gameMode = "teams"
    /\ phase = "lobby"
    /\ startPending = 1
    /\ settings.targetScore = 2
    /\ StartCondition

\* the sender has a player entry with isHost = true
SenderIsHost(sid) ==
    \E i \in DOMAIN players : players[i].sessionId = sid /\ players[i].isHost

\* what a handler did besides sending messages
Silent(S) == [S EXCEPT !.sent = {}]

C27_DrawTimeWithinLimits ==
    [][/\ settings'.drawTime >= MinDrawTime
       /\ settings'.drawTime <= MaxDrawTime
       /\ (phase # "drawing" /\ phase' = "drawing") =>
              (timeRemaining' >= MinDrawTime /\ timeRemaining' <= MaxDrawTime)]_vars

\* an FFA game that is over has no winner without a point
NoWinnerWithoutPoints ==
    (settings.gameMode = "ffa" /\ phase = "game-over") =>
        \A k \in DOMAIN winnerSessionIds :
            ScoreOf(playerScores, winnerSessionIds[k]) > 0

\* the team index the win rule names, or -1
ExpectedTeamWinner ==
    LET reached == {i \in DOMAIN teams : teams[i].score >= settings.targetScore}
        top == {i \in DOMAIN teams :
                   \A j \in DOMAIN teams : teams[j].score <= teams[i].score}
        Lowest(set) == CHOOSE i \in set : \A j \in set : i <= j
    IN  IF settings.winMode = "points"
        THEN IF reached = {} THEN -1 ELSE Lowest(reached) - 1
        ELSE IF currentRound < settings.totalRounds THEN -1
        ELSE Lowest(top) - 1

\* C28: checkWinCondition returns, in points mode, the lowest team index
\* whose score >= targetScore, else -1; in rounds mode -1 while
\* currentRound < totalRounds and otherwise the lowest index among the teams
\* with the maximum score.
C28_CheckWinCondition ==
    settings.gameMode = "teams" => CheckWinCondition(Cur) = ExpectedTeamWinner

\* the check has named team 0 as winner of a tie after the last round
C28_Witness ==
    /\ settings.gameMode = "teams"
    /\ settings.winMode = "rounds"
    /\ currentRound >= settings.totalRounds
    /\ teams[1].score = teams[2].score
    /\ teams[1].score > 0
    /\ winningTeamIndex = 0

\* the ids the FFA win rule names
ExpectedFFAWinners ==
    LET scores == {playerScores[i].score : i \in DOMAIN playerScores} \cup {0}
        maxScore == CHOOSE v \in scores : \A u \in scores : u <= v
    IN  IF \/ settings.winMode = "points" /\ maxScore < settings.targetScore
           \/ settings.winMode = "rounds" /\ currentRound < settings.totalRounds
           \/ maxScore = 0
        THEN {}
        ELSE {playerScores[i].id :
                 i \in {k \in DOMAIN playerScores : playerScores[k].score = maxScore}}

\* C29: checkFFAWinCondition returns nothing when the maximum score is
\* below the target (points), the rounds are not over (rounds) or the
\* maximum is 0, and otherwise exactly the sessionIds holding the maximum
\* score; and an FFA game that is over has no winner with 0 points.
C29_CheckFFAWinCondition ==
    /\ settings.gameMode = "ffa" =>
           LET winners == CheckFFAWinCondition(Cur)
           IN  /\ Range(winners) = ExpectedFFAWinners
               /\ Len(winners) = Cardinality(ExpectedFFAWinners)
    /\ NoWinnerWithoutPoints

\* C30: the continuation that starts sudden death for the tied list T makes
\* the first connected sessionId of the FFA queue that is not in T the
\* drawer, or T[0] when there is none; the drawer gets role drawer, the
\* other members of T guesser, everybody else spectator; isSuddenDeath is
\* true, winnerSessionIds = T and phase = word-select.
C30_SuddenDeathStart ==
    [][(/\ phase = "round-end"
        /\ roundEndPending # <<>>
        /\ roundEndPending' = Tail(roundEndPending)
        /\ Head(roundEndPending).kind = "suddenDeath")
          => LET T == Head(roundEndPending).winners
                 q == TeamAt(teams, FFA_TEAM_INDEX).drawerQueue
                 free == {i \in DOMAIN q :
                             /\ q[i] \notin Range(T)
                             /\ \E p \in DOMAIN players :
                                    /\ players[p].sessionId = q[i]
                                    /\ players[p].isConnected}
                 drawer == IF free # {}
                           THEN q[CHOOSE i \in free : \A j \in free : i <= j]
                           ELSE T[1]
             IN  /\ currentDrawer' = drawer
                 /\ Len(players') = Len(players)
                 /\ \A p \in DOMAIN players' :
                        players'[p].role =
                            IF players'[p].sessionId = drawer THEN "drawer"
                            ELSE IF players'[p].sessionId \in Range(T) THEN "guesser"
                            ELSE "spectator"
                 /\ isSuddenDeath'
                 /\ winnerSessionIds' = T
                 /\ phase' = "word-select"]_vars

\* sudden death has started with a drawer that is not tied and two tied
\* guessers
C30_Witness ==
    /\ isSuddenDeath
    /\ phase = "word-select"
    /\ Len(winnerSessionIds) = 2
    /\ currentDrawer \notin Range(winnerSessionIds)
    /\ Cardinality({p \in DOMAIN players : players[p].role = "guesser"}) = 2
    /\ \E p \in DOMAIN players :
           players[p].sessionId = currentDrawer /\ players[p].role = "drawer"

\* C31: in FFA sudden death the first correct guess of an allowed guesser
\* ends the game in that step: every timer is cancelled, isSuddenDeath is
\* false, winnerSessionIds is the guesser alone, the phase is game-over,
\* playerScores is unchanged and no round-end timeout is scheduled; a
\* sudden-death round that times out declares no winner and schedules
\* another sudden-death round for the same tied players.
C31_SuddenDeathWin ==
    [][(/\ settings.gameMode = "ffa"
        /\ isSuddenDeath
        /\ phase = "drawing")
          => /\ (/\ Len(guesses') = Len(guesses) + 1
                 /\ guesses'[Len(guesses')].isCorrect
                 /\ GuessAllowed(guesses'[Len(guesses')].playerId))
                   => /\ armed' = [autopick |-> 0, tick |-> 0, hint |-> 0]
                      /\ timer' = "none"
                      /\ ~hintTimer'
                      /\ ~isSuddenDeath'
                      /\ winnerSessionIds' = <<guesses'[Len(guesses')].playerId>>
                      /\ phase' = "game-over"
                      /\ playerScores' = playerScores
                      /\ roundEndPending' = roundEndPending
             /\ (armed.tick > 0 /\ timeRemaining = 1 /\ guesses = <<>>)
                   => LET S == TickCallback(Cur)
                      IN  /\ S.phase = "round-end"
                          /\ S.isSuddenDeath
                          /\ S.winnerSessionIds = winnerSessionIds
                          /\ S.playerScores = playerScores
                          /\ S.roundEndPending =
                                 Append(roundEndPending,
                                        [kind |-> "suddenDeath", winner |-> -1,
                                         winners |-> winnerSessionIds,
                                         after |-> startPending])]_vars

\* the ids that n successive picks from the queue of a team return
RECURSIVE Picks(_, _, _)
Picks(S, teamIndex, n) ==
    IF n = 0 THEN [ids |-> <<>>, S |-> S]
    ELSE LET r == GetNextDrawer(S, teamIndex)
             rest == Picks(r.S, teamIndex, n - 1)
         IN  [ids |-> <<r.id>> \o rest.ids, S |-> rest.S]

\* C32: drawers are taken round-robin: a round start takes the front of the
\* queue it serves as drawer and moves it to the tail; n successive picks
\* from a queue of n members return every member exactly once, in queue
\* order, and leave the queue as it was; in two-player FFA the drawer of a
\* round differs from the drawer of the round before.
C32_RoundRobin ==
    [][/\ \A t \in DOMAIN teams :
              LET q == teams[t].drawerQueue
                  r == Picks(Cur, t - 1, Len(q))
              IN  /\ r.ids = q
                  /\ r.S.teams[t].drawerQueue = q
                  /\ \A m \in Range(q) : Count(r.ids, m) = 1
                  /\ \A k \in 1 .. Len(q) :
                         LET h == Picks(Cur, t - 1, k)
                         IN  h.S.teams[t].drawerQueue =
                                 SubSeq(q, k + 1, Len(q)) \o SubSeq(q, 1, k)
       /\ (/\ currentRound >= 1
           /\ phase' = "word-select"
           /\ currentRound' = currentRound + 1)
             => LET idx == IF settings.gameMode = "ffa" THEN FFA_TEAM_INDEX
                           ELSE activeTeamIndex'
                    q == TeamAt(teams, idx).drawerQueue
                IN  /\ q # <<>>
                    /\ currentDrawer' = Head(q)
                    /\ TeamAt(teams', idx).drawerQueue = Append(Tail(q), Head(q))
                    /\ (/\ settings.gameMode = "ffa"
                        /\ Len(q) = 2
                        /\ ~isSuddenDeath)
                          => currentDrawer' # currentDrawer]_vars

\* the teams, by index, that have a drawer to offer
TeamsWithDrawers == {t \in 0 .. Len(teams) - 1 : TeamAt(teams, t).drawerQueue # <<>>}

\* C33: in teams mode startNextRound never starts a round with an active
\* team whose queue is empty while some team has a non-empty queue: the
\* active team becomes the first team with a non-empty queue at or
\* cyclically after activeTeamIndex and the drawer is the front of its
\* queue; when every queue is empty no round starts: the phase, the drawer
\* and the roles stay and no timer is armed.
C33_RoundStartSkipsEmptyTeams ==
    settings.gameMode # "ffa" =>
        \A words \in PickRandomWords :
            LET S == StartNextRound(Cur, words)
                n == Len(teams)
            IN  IF TeamsWithDrawers = {}
                THEN /\ S.phase = phase
                     /\ S.currentDrawer = currentDrawer
                     /\ S.players = players
                     /\ S.timer = "none"
                     /\ S.armed.autopick <= armed.autopick
                ELSE LET k == CHOOSE k \in 0 .. n - 1 :
                                  /\ (activeTeamIndex + k) % n \in TeamsWithDrawers
                                  /\ \A j \in 0 .. k - 1 :
                                         (activeTeamIndex + j) % n \notin TeamsWithDrawers
                         t == (activeTeamIndex + k) % n
                     IN  /\ S.activeTeamIndex = t
                         /\ S.currentDrawer = Head(TeamAt(teams, t).drawerQueue)
                         /\ S.phase = "word-select"
                         /\ S.currentRound = currentRound + 1

\* a teams game has started on the second team because the first one was
\* empty when the delayed start ran
C33_Witness ==
    /\ settings.gameMode = "teams"
    /\ phase = "word-select"
    /\ currentRound = 1
    /\ activeTeamIndex = 1
    /\ TeamAt(teams, 0).drawerQueue = <<>>
    /\ currentDrawer \in Range(TeamAt(teams, 1).drawerQueue)

\* C34: with armed timers firing and no playAgain the round lifecycle
\* progresses: word-select leads to drawing, drawing leads to round-end or
\* game-over, round-end leads to word-select or game-over (rounds below
\* MaxRound, the last round the model follows).
C34_RoundProgress ==
    /\ (phase = "word-select" /\ currentRound < MaxRound) ~> (phase = "drawing")
    /\ (phase = "drawing" /\ currentRound < MaxRound)
           ~> (phase \in {"round-end", "game-over"})
    /\ (phase = "round-end" /\ currentRound < MaxRound)
           ~> (phase \in {"word-select", "game-over"})

\* the positions of a word that hold a letter
LetterPositions(word) == {i \in DOMAIN word : word[i] # " "}

\* the hint of a word of which the letters at `shown` are revealed: every
\* position keeps the slot generateHint gave it
HintShowing(word, shown) ==
    JoinSpace([i \in DOMAIN word |->
                  IF word[i] = " " THEN <<" ", " ">>
                  ELSE IF i \in shown THEN <<word[i]>>
                  ELSE <<"_">>])

\* C35: each firing of the hint timer turns exactly one masked letter slot
\* into the letter the secret word has there, and nothing once every letter
\* is shown; the other slots keep their content: the hint always shows a set
\* of letters at their true positions, and a firing adds one position to it
\* while one is masked, for single words and words with spaces.
C35_HintReveal ==
    armed.hint > 0 =>
        \E shown \in SUBSET LetterPositions(currentWord) :
            /\ wordHint = HintShowing(currentWord, shown)
            /\ \A hint \in RevealLetter(currentWord, wordHint) :
                   IF shown = LetterPositions(currentWord)
                   THEN hint = wordHint
                   ELSE \E i \in LetterPositions(currentWord) \ shown :
                            hint = HintShowing(currentWord, shown \cup {i})

\* the score of a team index (0 where the list has no such team) and of a
\* sessionId (0 where playerScores has no entry)
TeamScoreOf(ts, t) == IF t + 1 \in DOMAIN ts THEN ts[t + 1].score ELSE 0

PlayerScoreOf(ms, sid) ==
    IF \E i \in DOMAIN ms : ms[i].id = sid
    THEN (CHOOSE e \in Range(ms) : e.id = sid).score
    ELSE 0

ScoreIds == 1 .. MaxSessions

TeamIds == {t - 1 : t \in DOMAIN teams}

\* C36: within a round at most one guess is recorded as correct and at most
\* one point is awarded: a correct guess raises exactly one team score (teams
\* mode) or exactly one player score (FFA) by exactly 1, and none in sudden
\* death; once a correct guess is recorded no guess is accepted; every other
\* step leaves the scores alone or, at a game start or playAgain, resets them
\* all to 0; no score is negative.
C36_OnePointPerRound ==
    [][/\ Cardinality({i \in DOMAIN guesses : guesses[i].isCorrect}) <= 1
       /\ \A t \in TeamIds : TeamScoreOf(teams, t) >= 0
       /\ \A e \in Range(playerScores) : e.score >= 0
       /\ (\E i \in DOMAIN guesses : guesses[i].isCorrect)
             => \A sid \in clients, text \in GuessInputs :
                    LET S == GuessHandler(Cur, sid, text)
                    IN  /\ S.guesses = guesses
                        /\ S.teams = teams
                        /\ S.playerScores = playerScores
       /\ IF /\ Len(guesses') = Len(guesses) + 1
             /\ guesses'[Len(guesses')].isCorrect
          THEN LET g == guesses'[Len(guesses')].playerId
               IN  IF settings.gameMode # "ffa"
                   THEN /\ \A t \in TeamIds :
                               TeamScoreOf(teams', t) =
                                   TeamScoreOf(teams, t)
                                       + (IF t = activeTeamIndex THEN 1 ELSE 0)
                        /\ playerScores' = playerScores
                   ELSE /\ \A t \in TeamIds : TeamScoreOf(teams', t) = TeamScoreOf(teams, t)
                        /\ \A sid \in ScoreIds :
                               PlayerScoreOf(playerScores', sid) =
                                   PlayerScoreOf(playerScores, sid)
                                       + (IF sid = g /\ ~isSuddenDeath THEN 1 ELSE 0)
          ELSE \/ /\ \A t \in TeamIds : TeamScoreOf(teams', t) = TeamScoreOf(teams, t)
                  /\ \A sid \in ScoreIds :
                         PlayerScoreOf(playerScores', sid) = PlayerScoreOf(playerScores, sid)
               \/ /\ \/ startPending' < startPending
                     \/ phase # "mode-select" /\ phase' = "mode-select"
                  /\ \A t \in TeamIds : TeamScoreOf(teams', t) = 0
                  /\ playerScores' = <<>>]_vars

\* a correct guess has given a second player of an FFA game its first point
C36_Witness ==
    /\ settings.gameMode = "ffa"
    /\ ~isSuddenDeath
    /\ phase \in {"round-end", "game-over"}
    /\ guesses # <<>>
    /\ guesses[Len(guesses)].isCorrect
    /\ PlayerScoreOf(playerScores, guesses[Len(guesses)].playerId) = 1
    /\ Len(playerScores) = 2

\* C37: when the 500 ms timeout of an accepted startGame runs, the start
\* condition still holds and the start is the one start of this game: the
\* room is still in the lobby, at least two teams have a non-empty drawer
\* queue (teams) or at least two connected players are placed in the pool
\* (FFA), and the first round begins.
C37_DelayedStartStillValid ==
    [][startPending' < startPending
          => /\ phase = "lobby"
             /\ StartCondition
             /\ phase' = "word-select"
             /\ IF settings.gameMode = "ffa"
                THEN Cardinality({i \in DOMAIN players' :
                        /\ players'[i].isConnected
                        /\ players'[i].sessionId
                               \in Range(TeamAt(teams', FFA_TEAM_INDEX).drawerQueue)}) >= 2
                ELSE Cardinality({t \in DOMAIN teams' :
                        teams'[t].drawerQueue # <<>>}) >= 2]_vars

\* the sessionIds of the player map
PlayerIds(ps) == {ps[i].sessionId : i \in DOMAIN ps}

\* C38: in an FFA game a player restored by a rejoin under its nickname
\* keeps its points and its tie status: after the step playerScores holds
\* under the new sessionId the score the old sessionId had, and in sudden
\* death winnerSessionIds has the new sessionId wherever it had the old one.
C38_RejoinKeepsScore ==
    [][(/\ settings.gameMode = "ffa"
        /\ currentRound >= 1
        /\ Len(players') = Len(players)
        /\ Cardinality(PlayerIds(players) \ PlayerIds(players')) = 1
        /\ Cardinality(PlayerIds(players') \ PlayerIds(players)) = 1)
          => LET old == CHOOSE x \in PlayerIds(players) \ PlayerIds(players') : TRUE
                 new == CHOOSE x \in PlayerIds(players') \ PlayerIds(players) : TRUE
             IN  /\ PlayerScoreOf(playerScores', new) = PlayerScoreOf(playerScores, old)
                 /\ isSuddenDeath =>
                        winnerSessionIds' =
                            [i \in DOMAIN winnerSessionIds |->
                                IF winnerSessionIds[i] = old THEN new
                                ELSE winnerSessionIds[i]]]_vars

\* C39: when the grace window of a session ends whose player a rejoin under
\* the same nickname has already restored under a new sessionId, nothing
\* changes: no player entry is removed, no isHost flag changes and no drawer
\* queue changes.
C39_ExpiryAfterRejoinChangesNothing ==
    [][\A sid \in grace \ PlayerIds(players) :
           grace' = grace \ {sid}
               => /\ players' = players
                  /\ teams' = teams]_vars

\* C40: a teams game with winMode rounds ends after exactly totalRounds
\* rounds: currentRound rises by exactly 1 with every round that starts and
\* never exceeds totalRounds (no next round is scheduled at the last one);
\* the end of round number totalRounds schedules game-over with a valid team
\* index, and the game turns game-over in no other round.
C40_TeamsGameEndsAfterTotalRounds ==
    [][(settings.gameMode = "teams" /\ settings.winMode = "rounds") =>
          /\ currentRound <= settings.totalRounds
          /\ (currentRound' # currentRound /\ currentRound' # 0)
                 => /\ currentRound' = currentRound + 1 \/ currentRound' = 1
                    /\ phase' = "word-select"
          /\ (phase' = "word-select" /\ phase # "word-select")
                 => currentRound' = currentRound + 1 \/ currentRound' = 1
          /\ \A i \in DOMAIN roundEndPending :
                 roundEndPending[i].kind = "nextRound"
                     => currentRound < settings.totalRounds
          /\ (/\ phase = "drawing"
              /\ phase' = "round-end"
              /\ currentRound = settings.totalRounds)
                 => LET c == roundEndPending'[Len(roundEndPending')]
                    IN  /\ Len(roundEndPending') = Len(roundEndPending) + 1
                        /\ c.kind = "teamGameOver"
                        /\ c.winner \in 0 .. Len(teams) - 1
          /\ (phase' = "game-over" /\ phase # "game-over")
                 => /\ currentRound = settings.totalRounds
                    /\ winningTeamIndex' \in 0 .. Len(teams) - 1]_vars

====
